---- MODULE Spec2Model ----
(***************************************************************************)
(* Model of plugins/event_source/oracle_adr_alertmanager.py: the pure      *)
(* helpers (_compile_pattern, _extract_msgs_from_buffer, _process_buffer)  *)
(* and the tailing coroutine tail_adr_xml_logfile, together with the file  *)
(* system, the external log writer, the bounded asyncio.Queue and its      *)
(* consumer.                                                               *)
(*                                                                         *)
(* Text is modelled as a sequence of one-character strings, so that        *)
(* str.find, slicing and concatenation are computed character by           *)
(* character.                                                              *)
(***************************************************************************)
EXTENDS Integers, Sequences, FiniteSets, TLC

----------------------------------------------------------------------------
(* Python str primitives                                                   *)

\* The literal "</msg>" of _extract_msgs_from_buffer.
CloseMarker == <<"<", "/", "m", "s", "g", ">">>

\* s[a:b] for 0 <= a, with b clipped to len(s).
Slice(s, a, b) == SubSeq(s, a + 1, IF b > Len(s) THEN Len(s) ELSE b)

\* s.startswith(sub, i)
StartsAt(s, sub, i) ==
    /\ i + Len(sub) <= Len(s)
    /\ \A k \in 1..Len(sub) : s[i + k] = sub[k]

\* s.find(sub): the lowest 0-based index of sub in s, or -1.
Find(s, sub) ==
    LET hits == {i \in 0..Len(s) : StartsAt(s, sub, i)}
    IN  IF hits = {} THEN -1
        ELSE CHOOSE i \in hits : \A j \in hits : i <= j

\* s.count(sub) for a sub that cannot overlap itself.
Count(s, sub) == Cardinality({i \in 0..Len(s) : StartsAt(s, sub, i)})

\* "".join(seqs)
RECURSIVE Join(_)
Join(seqs) == IF seqs = <<>> THEN <<>> ELSE Head(seqs) \o Join(Tail(seqs))

----------------------------------------------------------------------------
(* _extract_msgs_from_buffer                                               *)

\* The loop with the remainder sliced one character too far.
RECURSIVE ExtractLoopSkip(_, _)
ExtractLoopSkip(msgs, buffer) ==
    LET end == Find(buffer, CloseMarker)
    IN  IF end = -1
        THEN <<msgs, buffer>>
        ELSE ExtractLoopSkip(
                 Append(msgs, Slice(buffer, 0, end + Len(CloseMarker))),
                 Slice(buffer, end + Len(CloseMarker) + 1, Len(buffer)))

\* The while loop of _extract_msgs_from_buffer: msgs and buffer are the
\* loop's two locals.
RECURSIVE ExtractLoop(_, _)
ExtractLoop(msgs, buffer) ==
    LET end == Find(buffer, CloseMarker)
    IN  IF end = -1
        THEN <<msgs, buffer>>
        ELSE ExtractLoop(Append(msgs, Slice(buffer, 0, end + Len(CloseMarker))),
                         Slice(buffer, end + Len(CloseMarker), Len(buffer)))

\* _extract_msgs_from_buffer with "if" in the place of "while".
extract_first_msg(buffer) ==
    LET end == Find(buffer, CloseMarker)
    IN  IF end = -1
        THEN <<<<>>, buffer>>
        ELSE <<<<Slice(buffer, 0, end + Len(CloseMarker))>>,
               Slice(buffer, end + Len(CloseMarker), Len(buffer))>>

\* s.rfind(sub)
RFind(s, sub) ==
    LET hits == {i \in 0..Len(s) : StartsAt(s, sub, i)}
    IN  IF hits = {} THEN -1
        ELSE CHOOSE i \in hits : \A j \in hits : i >= j

\* _extract_msgs_from_buffer cutting at the last closing marker.
extract_to_last_marker(buffer) ==
    LET end == RFind(buffer, CloseMarker)
    IN  IF end = -1
        THEN <<<<>>, buffer>>
        ELSE <<<<Slice(buffer, 0, end + Len(CloseMarker))>>,
               Slice(buffer, end + Len(CloseMarker), Len(buffer))>>

extract_msgs_from_buffer(buffer) == ExtractLoop(<<>>, buffer)

----------------------------------------------------------------------------
(* xml.etree.ElementTree.fromstring, restricted to the markup the model    *)
(* writes: start tags <name a="v" ...>, end tags </name>, empty tags       *)
(* <name .../>, character data and the default namespace declaration       *)
(* xmlns="uri".  Comments, CDATA, entities, prefixed names, single-quoted  *)
(* values and ">" inside a value are not part of the modelled alphabet.    *)

\* Python's None, as a value that is no text: texts are sequences of
\* one-character strings.
None == <<"None">>

NameStartChars == {"a", "c", "d", "e", "g", "h", "i", "l", "m", "n", "o", "p",
                   "r", "s", "t", "v", "x", "y", "_"}
NameChars == NameStartChars \cup {"0", "1", "2", "3", "4", "5"}
Whitespace == {" ", "\n"}
Quote == "\""

IsName(n) ==
    /\ n /= <<>>
    /\ n[1] \in NameStartChars
    /\ \A k \in 1..Len(n) : n[k] \in NameChars

\* Index of the first character of s at or after 0-based i that is in cs,
\* or Len(s) when there is none.
NextIn(s, i, cs) ==
    LET hits == {j \in i..(Len(s) - 1) : s[j + 1] \in cs}
    IN  IF hits = {} THEN Len(s)
        ELSE CHOOSE j \in hits : \A h \in hits : j <= h

\* Index of the first character of s at or after 0-based i that is not
\* white space, or Len(s) when there is none.
SkipWs(s, i) ==
    LET hits == {j \in i..(Len(s) - 1) : s[j + 1] \notin Whitespace}
    IN  IF hits = {} THEN Len(s)
        ELSE CHOOSE j \in hits : \A h \in hits : j <= h

Xmlns == <<"x", "m", "l", "n", "s">>

BadAttrs == [ok |-> FALSE, attrs |-> <<>>]

\* The attribute list of a start tag: s is the text after the element
\* name, acc the <<name, value>> pairs read so far.  Each attribute is
\* white space, a name, "=", a double-quoted value without "<"; a name
\* given twice is an error.  The steps of reading one attribute follow,
\* last step first.
RECURSIVE ParseAttrs(_, _)

\* The value is read: it holds no "<" and the name is new.
AttrAdd(s, name, value, next, acc) ==
    IF \E k \in 1..Len(value) : value[k] = "<" THEN BadAttrs
    ELSE IF \E k \in 1..Len(acc) : acc[k][1] = name THEN BadAttrs
    ELSE ParseAttrs(Slice(s, next, Len(s)), Append(acc, <<name, value>>))

\* The opening quote is at 0-based v0: the value ends at the next quote.
AttrValueEnd(s, name, v0, v1, acc) ==
    IF v1 >= Len(s) THEN BadAttrs
    ELSE AttrAdd(s, name, Slice(s, v0 + 1, v1), v1 + 1, acc)

\* After "=" and white space, at 0-based v0, comes the opening quote.
AttrQuoted(s, name, v0, acc) ==
    IF v0 >= Len(s) \/ s[v0 + 1] /= Quote THEN BadAttrs
    ELSE AttrValueEnd(s, name, v0, NextIn(s, v0 + 1, {Quote}), acc)

\* After the name and white space, at 0-based q, comes "=".
AttrEquals(s, name, q, acc) ==
    IF ~IsName(name) THEN BadAttrs
    ELSE IF q >= Len(s) \/ s[q + 1] /= "=" THEN BadAttrs
    ELSE AttrQuoted(s, name, SkipWs(s, q + 1), acc)

\* The name starts at 0-based i and ends at e.
AttrNamed(s, i, e, acc) ==
    AttrEquals(s, Slice(s, i, e), SkipWs(s, e), acc)

ParseAttrs(s, acc) ==
    LET i == SkipWs(s, 0)
    IN  IF i = Len(s) THEN [ok |-> TRUE, attrs |-> acc]
        ELSE IF i = 0 THEN BadAttrs
        ELSE AttrNamed(s, i, NextIn(s, i, Whitespace \cup {"="}), acc)

\* A start or empty tag whose text between "<" and ">" (or "/>") is inner.
TagToken(kind, inner, next) ==
    LET e == NextIn(inner, 0, Whitespace)
        name == Slice(inner, 0, e)
        pa == ParseAttrs(Slice(inner, e, Len(inner)), <<>>)
    IN  [k |-> IF IsName(name) /\ pa.ok THEN kind ELSE "bad",
         v |-> name, attrs |-> pa.attrs, next |-> next]

\* The token that starts at 0-based index i of s, and the index after it.
TokenAt(s, i) ==
    IF s[i + 1] = "<"
    THEN LET j == NextIn(s, i, {">"})
             inner == Slice(s, i + 1, j)
         IN  IF j = Len(s)
             THEN [k |-> "bad", v |-> <<>>, attrs |-> <<>>, next |-> Len(s)]
             ELSE IF inner /= <<>> /\ Head(inner) = "/"
                  THEN LET e == NextIn(inner, 1, Whitespace)
                           name == Slice(inner, 1, e)
                       IN  [k |-> IF IsName(name) /\ SkipWs(inner, e) = Len(inner)
                                  THEN "close" ELSE "bad",
                            v |-> name, attrs |-> <<>>, next |-> j + 1]
             ELSE IF inner /= <<>> /\ inner[Len(inner)] = "/"
                  THEN TagToken("empty", Slice(inner, 0, Len(inner) - 1), j + 1)
             ELSE TagToken("open", inner, j + 1)
    ELSE LET j == NextIn(s, i, {"<"})
         IN  [k |-> "text", v |-> Slice(s, i, j), attrs |-> <<>>, next |-> j]

RECURSIVE Tokenize(_, _)
Tokenize(s, i) ==
    IF i >= Len(s) THEN <<>>
    ELSE LET t == TokenAt(s, i)
         IN  <<[k |-> t.k, v |-> t.v, attrs |-> t.attrs]>>
             \o Tokenize(s, t.next)

IsBlank(v) == \A k \in 1..Len(v) : v[k] \in Whitespace

\* dict.get(key): the value of the first pair named key, None without one.
AttribGet(attrib, key) ==
    IF \E k \in 1..Len(attrib) : attrib[k][1] = key
    THEN attrib[CHOOSE k \in 1..Len(attrib) : attrib[k][1] = key][2]
    ELSE None

\* The pairs of attrs other than the namespace declaration, which the
\* parser does not report as an attribute.
RECURSIVE WithoutXmlns(_)
WithoutXmlns(attrs) ==
    IF attrs = <<>> THEN <<>>
    ELSE IF Head(attrs)[1] = Xmlns THEN WithoutXmlns(Tail(attrs))
    ELSE <<Head(attrs)>> \o WithoutXmlns(Tail(attrs))

\* The default namespace of an element with attributes attrs whose parent
\* has default namespace outer.
NamespaceOf(attrs, outer) ==
    IF AttribGet(attrs, Xmlns) = None THEN outer ELSE AttribGet(attrs, Xmlns)

\* Element.tag: "{uri}name" inside a default namespace, name outside one.
QName(ns, name) ==
    IF ns = <<>> THEN name ELSE <<"{">> \o ns \o <<"}">> \o name

\* The expat parse of the token list: stack holds the open elements as
\* [name, ns], root the document element as [tag, attrib] once it has
\* started, txt the text of the first child of the root whose tag is txt
\* (None when there is none).  The result is elem as [ok, tag, attrib,
\* txt]; ok = FALSE is ET.ParseError.
ParseError == [ok |-> FALSE, tag |-> None, attrib |-> <<>>, txt |-> None]
NoRoot == [tag |-> None, attrib |-> <<>>]

RECURSIVE ParseTokens(_, _, _, _, _)
ParseTokens(toks, n, stack, root, txt) ==
    IF n > Len(toks)
    THEN IF stack = <<>> /\ root /= NoRoot
         THEN [ok |-> TRUE, tag |-> root.tag, attrib |-> root.attrib,
               txt |-> txt]
         ELSE ParseError
    ELSE LET t == toks[n]
             outer == IF stack = <<>> THEN <<>> ELSE stack[Len(stack)].ns
             ns == NamespaceOf(t.attrs, outer)
             tag == QName(ns, t.v)
             started == [tag |-> tag, attrib |-> WithoutXmlns(t.attrs)]
             isFirstTxt == Len(stack) = 1 /\ tag = <<"t", "x", "t">>
                           /\ txt = None
             text == IF n < Len(toks) /\ toks[n + 1].k = "text"
                     THEN toks[n + 1].v ELSE <<>>
         IN  CASE t.k = "bad" -> ParseError
               [] t.k = "text" ->
                    IF stack = <<>> /\ ~IsBlank(t.v) THEN ParseError
                    ELSE ParseTokens(toks, n + 1, stack, root, txt)
               [] t.k = "open" ->
                    IF stack = <<>> /\ root /= NoRoot THEN ParseError
                    ELSE ParseTokens(toks, n + 1,
                                     Append(stack, [name |-> t.v, ns |-> ns]),
                                     IF stack = <<>> THEN started ELSE root,
                                     IF isFirstTxt THEN text ELSE txt)
               [] t.k = "empty" ->
                    IF stack = <<>> /\ root /= NoRoot THEN ParseError
                    ELSE ParseTokens(toks, n + 1, stack,
                                     IF stack = <<>> THEN started ELSE root,
                                     IF isFirstTxt THEN <<>> ELSE txt)
               [] t.k = "close" ->
                    IF stack = <<>> \/ stack[Len(stack)].name /= t.v
                    THEN ParseError
                    ELSE ParseTokens(toks, n + 1,
                                     SubSeq(stack, 1, Len(stack) - 1),
                                     root, txt)

\* ET.fromstring(xml_str)
fromstring(xml_str) == ParseTokens(Tokenize(xml_str, 0), 1, <<>>, NoRoot, None)

\* str.strip()
RECURSIVE Strip(_)
Strip(s) ==
    IF s = <<>> THEN s
    ELSE IF Head(s) \in Whitespace THEN Strip(Tail(s))
    ELSE IF s[Len(s)] \in Whitespace THEN Strip(SubSeq(s, 1, Len(s) - 1))
    ELSE s

----------------------------------------------------------------------------
(* re: a pattern is a literal text searched as a substring; IGNORECASE     *)
(* folds both sides to lower case before the search.                       *)

LowerChar(c) == IF c = "O" THEN "o" ELSE IF c = "N" THEN "n" ELSE c
Lower(s) == [k \in 1..Len(s) |-> LowerChar(s[k])]

\* re.compile(text, flags)
re_compile(text, ignorecase) ==
    [type |-> "Pattern", pattern |-> text, ignorecase |-> ignorecase]

\* pattern_regex.search(text) is not None
search(pattern_regex, text) ==
    IF pattern_regex.ignorecase
    THEN Find(Lower(text), Lower(pattern_regex.pattern)) /= -1
    ELSE Find(text, pattern_regex.pattern) /= -1

TypeError == [type |-> "TypeError"]

\* _compile_pattern compiling a text without re.IGNORECASE.
compile_pattern_sensitive(pattern_arg) ==
    IF pattern_arg.type = "str"
    THEN re_compile(pattern_arg.value, FALSE)
    ELSE IF pattern_arg.type /= "Pattern"
    THEN TypeError
    ELSE pattern_arg

\* _compile_pattern falling back to a default pattern for any other type.
compile_pattern_default(pattern_arg) ==
    IF pattern_arg.type = "str"
    THEN re_compile(pattern_arg.value, TRUE)
    ELSE IF pattern_arg.type /= "Pattern"
    THEN re_compile(<<"O">>, TRUE)
    ELSE pattern_arg

\* _compile_pattern compiling an already compiled pattern again, from its
\* text.
compile_pattern_recompiled(pattern_arg) ==
    IF pattern_arg.type = "str"
    THEN re_compile(pattern_arg.value, TRUE)
    ELSE IF pattern_arg.type /= "Pattern"
    THEN TypeError
    ELSE re_compile(pattern_arg.pattern, TRUE)

\* _compile_pattern: pattern_arg is a value tagged with its Python type.
compile_pattern(pattern_arg) ==
    IF pattern_arg.type = "str"
    THEN re_compile(pattern_arg.value, TRUE)
    ELSE IF pattern_arg.type /= "Pattern"
    THEN TypeError
    ELSE pattern_arg

----------------------------------------------------------------------------
(* _process_buffer                                                         *)

\* The names of the attributes an event is built of.
AttrTime == <<"t", "i", "m", "e">>
AttrOrgId == <<"o", "r", "g", "_", "i", "d">>
AttrCompId == <<"c", "o", "m", "p", "_", "i", "d">>
AttrType == <<"t", "y", "p", "e">>
AttrLevel == <<"l", "e", "v", "e", "l">>
AttrHostId == <<"h", "o", "s", "t", "_", "i", "d">>
AttrHostAddr == <<"h", "o", "s", "t", "_", "a", "d", "d", "r">>
AttrPid == <<"p", "i", "d">>

\* The event dictionary with msg_type read from an attribute of that name.
EventMsgTypeKey(path, pattern_regex, elem, txt_content) ==
    [adr_home |-> path, pattern |-> pattern_regex.pattern,
     time |-> AttribGet(elem.attrib, AttrTime),
     org_id |-> AttribGet(elem.attrib, AttrOrgId),
     comp_id |-> AttribGet(elem.attrib, AttrCompId),
     msg_type |-> AttribGet(elem.attrib, <<"m", "s", "g", "_">> \o AttrType),
     level |-> AttribGet(elem.attrib, AttrLevel),
     host_id |-> AttribGet(elem.attrib, AttrHostId),
     host_addr |-> AttribGet(elem.attrib, AttrHostAddr),
     pid |-> AttribGet(elem.attrib, AttrPid),
     message |-> txt_content]

\* The event dictionary built for one matching record.
Event(path, pattern_regex, elem, txt_content) ==
    [adr_home |-> path, pattern |-> pattern_regex.pattern,
     time |-> AttribGet(elem.attrib, AttrTime),
     org_id |-> AttribGet(elem.attrib, AttrOrgId),
     comp_id |-> AttribGet(elem.attrib, AttrCompId),
     msg_type |-> AttribGet(elem.attrib, AttrType),
     level |-> AttribGet(elem.attrib, AttrLevel),
     host_id |-> AttribGet(elem.attrib, AttrHostId),
     host_addr |-> AttribGet(elem.attrib, AttrHostAddr),
     pid |-> AttribGet(elem.attrib, AttrPid),
     message |-> txt_content]

\* The body of the for loop without the test of elem.tag.
EventsOfRecordAnyRoot(xml_str, pattern_regex, path) ==
    LET elem == fromstring(xml_str)
        txt_content == Strip(IF elem.txt = None THEN <<>> ELSE elem.txt)
    IN  IF ~elem.ok THEN <<>>
        ELSE IF ~search(pattern_regex, txt_content) THEN <<>>
        ELSE <<Event(path, pattern_regex, elem, txt_content)>>

\* The body of the for loop for one xml_str: the events it appends.
EventsOfRecord(xml_str, pattern_regex, path) ==
    LET elem == fromstring(xml_str)
        txt_content == Strip(IF elem.txt = None THEN <<>> ELSE elem.txt)
    IN  IF ~elem.ok THEN <<>>
        ELSE IF elem.tag /= <<"m", "s", "g">> THEN <<>>
        ELSE IF ~search(pattern_regex, txt_content) THEN <<>>
        ELSE <<Event(path, pattern_regex, elem, txt_content)>>

\* The for loop inserting each event at the front of the list.
RECURSIVE EventsOfRecordsReversed(_, _, _)
EventsOfRecordsReversed(msgs, pattern_regex, path) ==
    IF msgs = <<>> THEN <<>>
    ELSE EventsOfRecordsReversed(Tail(msgs), pattern_regex, path)
         \o EventsOfRecord(Head(msgs), pattern_regex, path)

\* The for loop inside the try: the first ParseError ends the loop.
RECURSIVE EventsOfRecordsAbort(_, _, _)
EventsOfRecordsAbort(msgs, pattern_regex, path) ==
    IF msgs = <<>> THEN <<>>
    ELSE IF ~fromstring(Head(msgs)).ok THEN <<>>
    ELSE EventsOfRecord(Head(msgs), pattern_regex, path)
         \o EventsOfRecordsAbort(Tail(msgs), pattern_regex, path)

RECURSIVE EventsOfRecords(_, _, _)
EventsOfRecords(msgs, pattern_regex, path) ==
    IF msgs = <<>> THEN <<>>
    ELSE EventsOfRecord(Head(msgs), pattern_regex, path)
         \o EventsOfRecords(Tail(msgs), pattern_regex, path)

\* _process_buffer returns (events, buffer).
process_buffer(buffer, pattern_regex, path) ==
    LET ex == extract_msgs_from_buffer(buffer)
    IN  <<EventsOfRecords(ex[1], pattern_regex, path), ex[2]>>

----------------------------------------------------------------------------
(* Texts used by the model                                                 *)

AdrHome == <<"/", "a">>
OpenMsg == <<"<", "m", "s", "g", ">">>
OpenTxt == <<"<", "t", "x", "t", ">">>
CloseTxt == <<"<", "/", "t", "x", "t", ">">>
NL == <<"\n">>

\* Payload of the i-th matching record: stands for "ORA-0000i".
Digit(i) == IF i = 1 THEN "1" ELSE IF i = 2 THEN "2" ELSE IF i = 3 THEN "3"
            ELSE IF i = 4 THEN "4" ELSE "5"
Ora(i) == <<"O", Digit(i)>>

\* A complete, well-formed record whose payload is txt.
Record(txt) == OpenMsg \o OpenTxt \o txt \o CloseTxt \o CloseMarker

----------------------------------------------------------------------------
(* Bounds                                                                  *)

MaxRecs == 2       \* records the writer appends
MaxFsOps == 1      \* truncations, replacements, removals, creations, chmods
QueueMax == 1      \* maxsize of the asyncio.Queue handed to the tailer
MaxPieces == 4     \* pieces a buffer given to the pure functions is built of

----------------------------------------------------------------------------
(* State                                                                   *)

VARIABLES
    \* file system: the inode <adr_home>/alert/log.xml names (0: no such
    \* file), whether it may be opened for reading, every inode's content
    path, readable, files,
    \* the external writer: records written so far, the rest of a record
    \* written in two pieces, file system operations done
    nrec, whalf, wops,
    \* tail_adr_xml_logfile: program counter and locals.  fh is the file
    \* object [ino, pos]; opened is the file object the helper
    \* thread has created and not yet handed to the coroutine; inode is the
    \* st_ino kept at open; events is the rest of the for loop of line 180
    pc, pattern_arg, pattern_regex, buffer, fh, opened, inode, events,
    \* OS file handles opened by the tailer and not closed
    open_handles,
    \* the asyncio.Queue
    queue,
    \* history: messages of the events built by read cycles and of the
    \* events put, numbers of the records complete in the file at a seek to
    \* end of file, length of the text at the front of the buffer that was
    \* read before the last reopening of the file, number of records the
    \* writer had begun at the last seek
    built, emitted, at_seek, carried, seek_nrec,
    \* the rotation test of the integration suite: its program counter
    tpc,
    \* application of the pure functions: argument, result, position, and
    \* the records the argument was built of
    arg, ret, fpc, batch

vars == <<path, readable, files, nrec, whalf, wops,
          pc, pattern_arg, pattern_regex, buffer, fh, opened, inode,
          events, open_handles, queue, built, emitted, at_seek, carried,
          seek_nrec, tpc, arg, ret, fpc, batch>>

fsVars == <<path, readable, files>>
writerVars == <<nrec, whalf, wops>>
tailerVars == <<pc, pattern_arg, pattern_regex, buffer, fh, opened, inode,
                events, open_handles>>
histVars == <<built, emitted, at_seek, carried, seek_nrec>>
funVars == <<arg, ret, fpc, batch>>

MaxInode == 1 + MaxFsOps
Inodes == 1..MaxInode

\* The arguments main() may pass as pattern: a text, or a value that is
\* neither text nor a compiled pattern.
StrArg(text) == [type |-> "str", value |-> text]
IntArg == [type |-> "int", value |-> 123]

\* fh, opened and pattern_regex before they are bound.
NoFile == [ino |-> 0, pos |-> 0]
NoPattern == [type |-> "NoneType"]

\* Numbers of the matching records that are complete in content.
CompleteIn(content) == {i \in 1..MaxRecs : Find(content, Record(Ora(i))) /= -1}

\* The state after main() has created the task, common to all
\* specifications.
InitTailer ==
    /\ pc = "start"
    /\ pattern_regex = NoPattern /\ buffer = <<>>
    /\ fh = NoFile /\ opened = NoFile /\ inode = 0
    /\ events = <<>>
    /\ open_handles = 0
    /\ queue = <<>>
    /\ built = <<>> /\ emitted = <<>> /\ at_seek = {} /\ carried = 0
    /\ seek_nrec = 0

InitWriter == nrec = 0 /\ whalf = <<>> /\ wops = 0

\* A buffer built of no records.
NoBatch == [recs |-> <<>>, frag |-> <<>>]

InitFun == arg = <<>> /\ ret = <<>> /\ fpc = "off" /\ batch = NoBatch

Init ==
    /\ path \in {0, 1} /\ readable = TRUE
    /\ files = [i \in Inodes |-> <<>>]
    /\ (pattern_arg = StrArg(<<"O">>) \/ pattern_arg = IntArg)
    /\ InitTailer /\ InitWriter /\ InitFun
    /\ tpc = "off"

----------------------------------------------------------------------------
(* File operations                                                         *)

\* fh.readline(): the text from the cursor through the next newline, or to
\* end of file; empty at or beyond end of file.
readline(content, pos) ==
    IF pos >= Len(content) THEN <<>>
    ELSE LET rest == Slice(content, pos, Len(content))
             nl == Find(rest, NL)
         IN  IF nl = -1 THEN rest ELSE Slice(rest, 0, nl + 1)

\* os.stat(adr_xml_logfile) when the file exists.
os_stat == [st_ino |-> path, st_size |-> Len(files[path])]

\* A finally clause that drops fh without closing it.
CloseForgotten ==
    /\ fh' = NoFile
    /\ open_handles' = open_handles

\* fh.close() in the finally clause.
Close ==
    /\ fh' = NoFile
    /\ open_handles' = open_handles - 1

----------------------------------------------------------------------------
(* tail_adr_xml_logfile                                                    *)

\* Lines 157-160: compile the pattern; a TypeError leaves the coroutine.
Start ==
    /\ pc = "start"
    /\ LET p == compile_pattern(pattern_arg)
       IN  IF p = TypeError
           THEN pc' = "type_error" /\ UNCHANGED pattern_regex
           ELSE pc' = "open" /\ pattern_regex' = p
    /\ buffer' = <<>>
    /\ UNCHANGED <<fsVars, writerVars, pattern_arg, fh, opened, inode,
                   events, open_handles, queue, histVars, tpc, funVars>>

\* Line 165, in the helper thread: open() succeeds and creates a file
\* object positioned at 0.
OpenOk ==
    /\ pc = "open"
    /\ path /= 0 /\ readable
    /\ opened' = [ino |-> path, pos |-> 0]
    /\ open_handles' = open_handles + 1
    /\ pc' = "open_ret"
    /\ UNCHANGED <<fsVars, writerVars, pattern_arg, pattern_regex, buffer, fh,
                   inode, events, queue, histVars, tpc, funVars>>

\* Line 165: the await returns the file object to the coroutine.
OpenReturn ==
    /\ pc = "open_ret"
    /\ fh' = opened
    /\ opened' = NoFile
    /\ pc' = "stat0"
    /\ UNCHANGED <<fsVars, writerVars, pattern_arg, pattern_regex, buffer,
                   inode, events, open_handles, queue, histVars, tpc,
                   funVars>>

\* Line 165 raises FileNotFoundError, caught at line 197: log, then sleep.
OpenNotFound ==
    /\ pc = "open"
    /\ path = 0
    /\ pc' = "fnf_sleep"
    /\ UNCHANGED <<fsVars, writerVars, pattern_arg, pattern_regex, buffer, fh,
                   opened, inode, events, open_handles, queue, histVars,
                   tpc, funVars>>

\* Line 165 raises PermissionError, which no except clause catches: the
\* exception leaves the coroutine.
OpenDenied ==
    /\ pc = "open"
    /\ path /= 0 /\ ~readable
    /\ pc' = "crashed"
    /\ buffer' = <<>> /\ inode' = 0 /\ carried' = 0
    /\ UNCHANGED <<fsVars, writerVars, pattern_arg, pattern_regex, fh,
                   opened, events, open_handles, queue, built, emitted,
                   at_seek, seek_nrec, tpc, funVars>>

\* Line 199: the sleep ends, back to the top of the outer loop.
RetrySleep ==
    /\ pc = "fnf_sleep"
    /\ pc' = "open"
    /\ UNCHANGED <<fsVars, writerVars, pattern_arg, pattern_regex, buffer, fh,
                   opened, inode, events, open_handles, queue, histVars,
                   tpc, funVars>>

\* Lines 168-169: stat by path, keep st_ino.
Stat0Ok ==
    /\ pc = "stat0"
    /\ path /= 0
    /\ inode' = os_stat.st_ino
    /\ pc' = "seek"
    /\ UNCHANGED <<fsVars, writerVars, pattern_arg, pattern_regex, buffer, fh,
                   opened, events, open_handles, queue, histVars, tpc,
                   funVars>>

\* Line 168 raises FileNotFoundError: finally closes fh, line 197 catches.
Stat0NotFound ==
    /\ pc = "stat0"
    /\ path = 0
    /\ Close
    /\ pc' = "fnf_sleep"
    /\ UNCHANGED <<fsVars, writerVars, pattern_arg, pattern_regex, buffer,
                   opened, inode, events, queue, histVars, tpc, funVars>>

\* Line 172 left out: the cursor stays where open() put it.
SeekNone ==
    /\ pc = "seek"
    /\ at_seek' = at_seek \cup CompleteIn(files[fh.ino])
    /\ seek_nrec' = nrec
    /\ pc' = "readline"
    /\ UNCHANGED <<fsVars, writerVars, pattern_arg, pattern_regex, buffer, fh,
                   opened, inode, events, open_handles, queue, built,
                   emitted, carried, tpc, funVars>>

\* Line 172: fh.seek(0, os.SEEK_END).
Seek ==
    /\ pc = "seek"
    /\ fh' = [fh EXCEPT !.pos = Len(files[fh.ino])]
    /\ at_seek' = at_seek \cup CompleteIn(files[fh.ino])
    /\ seek_nrec' = nrec
    /\ pc' = "readline"
    /\ UNCHANGED <<fsVars, writerVars, pattern_arg, pattern_regex, buffer,
                   opened, inode, events, open_handles, queue, built,
                   emitted, carried, tpc, funVars>>

Messages(evs) == [k \in 1..Len(evs) |-> evs[k].message]

\* A read step that processes the line alone, without what was read
\* before it.
ReadDataLineOnly ==
    /\ pc = "readline"
    /\ LET line == readline(files[fh.ino], fh.pos)
           res == process_buffer(line, pattern_regex, AdrHome)
       IN  /\ line /= <<>>
           /\ fh' = [fh EXCEPT !.pos = fh.pos + Len(line)]
           /\ events' = res[1]
           /\ buffer' = res[2]
           /\ built' = built \o Messages(res[1])
           /\ carried' = IF Find(buffer \o line, CloseMarker) = -1
                         THEN carried ELSE 0
           /\ pc' = IF res[1] = <<>> THEN "readline" ELSE "put"
    /\ UNCHANGED <<fsVars, writerVars, pattern_arg, pattern_regex, opened,
                   inode, open_handles, queue, emitted, at_seek, seek_nrec,
                   tpc,
                   funVars>>

\* Lines 176-179: a line was read; append it, process the buffer.
ReadData ==
    /\ pc = "readline"
    /\ LET line == readline(files[fh.ino], fh.pos)
           res == process_buffer(buffer \o line, pattern_regex, AdrHome)
       IN  /\ line /= <<>>
           /\ fh' = [fh EXCEPT !.pos = fh.pos + Len(line)]
           /\ events' = res[1]
           /\ buffer' = res[2]
           /\ built' = built \o Messages(res[1])
           /\ carried' = IF Find(buffer \o line, CloseMarker) = -1
                         THEN carried ELSE 0
           /\ pc' = IF res[1] = <<>> THEN "readline" ELSE "put"
    /\ UNCHANGED <<fsVars, writerVars, pattern_arg, pattern_regex, opened,
                   inode, open_handles, queue, emitted, at_seek, seek_nrec,
                   tpc,
                   funVars>>

\* Lines 176-177, 182: nothing was read.
ReadEof ==
    /\ pc = "readline"
    /\ readline(files[fh.ino], fh.pos) = <<>>
    /\ pc' = "poll_sleep"
    /\ UNCHANGED <<fsVars, writerVars, pattern_arg, pattern_regex, buffer, fh,
                   opened, inode, events, open_handles, queue, histVars,
                   tpc, funVars>>

\* Line 181, Queue.put with room: the event is enqueued without suspending.
Put ==
    /\ pc = "put"
    /\ Len(queue) < QueueMax
    /\ queue' = Append(queue, Head(events))
    /\ emitted' = Append(emitted, Head(events).message)
    /\ events' = Tail(events)
    /\ pc' = IF Tail(events) = <<>> THEN "readline" ELSE "put"
    /\ UNCHANGED <<fsVars, writerVars, pattern_arg, pattern_regex, buffer, fh,
                   opened, inode, open_handles, built, at_seek, seek_nrec,
                   carried, tpc,
                   funVars>>

\* Line 181 as put_nowait with QueueFull swallowed: the event is dropped.
PutDrop ==
    /\ pc = "put"
    /\ Len(queue) >= QueueMax
    /\ events' = Tail(events)
    /\ pc' = IF Tail(events) = <<>> THEN "readline" ELSE "put"
    /\ UNCHANGED <<fsVars, writerVars, pattern_arg, pattern_regex, buffer, fh,
                   opened, inode, open_handles, queue, histVars, tpc, funVars>>

\* Line 181, Queue.put on a full queue: the coroutine suspends on a putter.
PutBlock ==
    /\ pc = "put"
    /\ Len(queue) >= QueueMax
    /\ pc' = "put_wait"
    /\ UNCHANGED <<fsVars, writerVars, pattern_arg, pattern_regex, buffer, fh,
                   opened, inode, events, open_handles, queue, histVars,
                   tpc, funVars>>

\* Queue.put: a get has woken the putter, the loop tests full() again.
PutWake ==
    /\ pc = "put_wait"
    /\ Len(queue) < QueueMax
    /\ pc' = "put"
    /\ UNCHANGED <<fsVars, writerVars, pattern_arg, pattern_regex, buffer, fh,
                   opened, inode, events, open_handles, queue, histVars,
                   tpc, funVars>>

\* Line 184: the poll sleep ends.
PollSleep ==
    /\ pc = "poll_sleep"
    /\ pc' = "stat1"
    /\ UNCHANGED <<fsVars, writerVars, pattern_arg, pattern_regex, buffer, fh,
                   opened, inode, events, open_handles, queue, histVars, tpc,
                   funVars>>

\* The test of line 189 without the comparison of size and offset.
RotatedInodeOnly(st, pos) == st.st_ino /= inode

\* The test of line 189 on the stat result and pos = fh.tell().
Rotated(st, pos) == st.st_ino /= inode \/ st.st_size < pos

\* Lines 186-191: stat by path and fh.tell(); rotation or truncation is
\* detected: break, finally closes fh, and the outer loop opens again.
CheckRotated ==
    /\ pc = "stat1"
    /\ path /= 0
    /\ Rotated(os_stat, fh.pos)
    /\ Close
    /\ pc' = "open"
    /\ carried' = Len(buffer)
    /\ UNCHANGED <<fsVars, writerVars, pattern_arg, pattern_regex, buffer,
                   opened, inode, events, queue, built, emitted, at_seek,
                   seek_nrec,
                   tpc, funVars>>

\* Lines 186-189: stat by path and fh.tell(); no rotation, next iteration
\* of the read loop.
CheckSame ==
    /\ pc = "stat1"
    /\ path /= 0
    /\ ~Rotated(os_stat, fh.pos)
    /\ pc' = "readline"
    /\ UNCHANGED <<fsVars, writerVars, pattern_arg, pattern_regex, buffer, fh,
                   opened, inode, events, open_handles, queue, histVars, tpc,
                   funVars>>

\* Lines 186, 192-194: os.stat raises FileNotFoundError: log, break,
\* finally closes fh, and the outer loop opens again.
CheckNotFound ==
    /\ pc = "stat1"
    /\ path = 0
    /\ Close
    /\ pc' = "open"
    /\ carried' = Len(buffer)
    /\ UNCHANGED <<fsVars, writerVars, pattern_arg, pattern_regex, buffer,
                   opened, inode, events, queue, built, emitted, at_seek,
                   seek_nrec,
                   tpc, funVars>>

\* The awaits at which the coroutine is suspended.
SuspensionPoints == {"open", "open_ret", "fnf_sleep", "stat0", "seek",
                     "readline", "put_wait", "poll_sleep", "stat1"}

\* task.cancel(): CancelledError is raised at the await the coroutine is
\* suspended in.  Inside the inner try the finally clause closes fh; at
\* line 165 fh is not bound yet, and a file object the helper thread has
\* already created is dropped without a close.  The locals end with the
\* coroutine.
Cancel ==
    /\ pc \in SuspensionPoints
    /\ IF fh /= NoFile THEN Close ELSE UNCHANGED <<fh, open_handles>>
    /\ opened' = NoFile
    /\ pc' = "cancelled"
    /\ buffer' = <<>> /\ inode' = 0 /\ events' = <<>> /\ carried' = 0
    /\ UNCHANGED <<fsVars, writerVars, pattern_arg, pattern_regex, queue,
                   built, emitted, at_seek, seek_nrec, tpc, funVars>>

\* The host's consumer: queue.get().
Get ==
    /\ queue /= <<>>
    /\ queue' = Tail(queue)
    /\ UNCHANGED <<fsVars, writerVars, tailerVars, histVars, tpc, funVars>>

----------------------------------------------------------------------------
(* The external writer of log.xml and the file system around it            *)

\* The coroutine has not returned, raised or been cancelled; the writer is
\* followed for as long as it runs.
Running == pc \notin {"type_error", "crashed", "cancelled"}

\* Append text to the file the path names.
AppendToFile(text) == files' = [files EXCEPT ![path] = @ \o text]

\* A record that is not well-formed: the txt element is never closed.
Malformed(txt) == OpenMsg \o OpenTxt \o txt \o CloseMarker

\* Where a record written in two pieces is cut: inside the closing marker.
SplitPoint == Len(Record(Ora(1))) - 3

\* The writer appends a complete matching record, with or without a
\* newline after it.
WriteRecord ==
    /\ Running /\ path /= 0 /\ whalf = <<>> /\ nrec < MaxRecs
    /\ \E nl \in {<<>>, NL} : AppendToFile(Record(Ora(nrec + 1)) \o nl)
    /\ nrec' = nrec + 1
    /\ UNCHANGED <<path, readable, whalf, wops, tailerVars, queue,
                   histVars, tpc, funVars>>

\* The writer appends the first piece of a matching record.
WriteHead ==
    /\ Running /\ path /= 0 /\ whalf = <<>> /\ nrec < MaxRecs
    /\ LET rec == Record(Ora(nrec + 1)) \o NL
       IN  /\ AppendToFile(Slice(rec, 0, SplitPoint))
           /\ whalf' = Slice(rec, SplitPoint, Len(rec))
    /\ nrec' = nrec + 1
    /\ UNCHANGED <<path, readable, wops, tailerVars, queue, histVars,
                   tpc, funVars>>

\* The writer appends the rest of the record.
WriteTail ==
    /\ Running /\ path /= 0 /\ whalf /= <<>>
    /\ AppendToFile(whalf)
    /\ whalf' = <<>>
    /\ UNCHANGED <<path, readable, nrec, wops, tailerVars, queue,
                   histVars, tpc, funVars>>

\* The writer appends a record that does not match, or one that is not
\* well-formed.
WriteJunk ==
    /\ Running /\ path /= 0 /\ whalf = <<>> /\ nrec < MaxRecs
    /\ \E text \in {Record(<<"n">>) \o NL, Malformed(Ora(nrec + 1)) \o NL} :
         AppendToFile(text)
    /\ nrec' = nrec + 1
    /\ UNCHANGED <<path, readable, whalf, wops, tailerVars, queue,
                   histVars, tpc, funVars>>

\* The file is truncated in place (same inode).
Truncate ==
    /\ Running /\ path /= 0 /\ wops < MaxFsOps
    /\ files' = [files EXCEPT ![path] = <<>>]
    /\ wops' = wops + 1
    /\ UNCHANGED <<path, readable, nrec, whalf, tailerVars, queue,
                   histVars, tpc, funVars>>

\* The inode no file has used yet.
FreshInode == 1 + wops + 1

\* The file is renamed away and a new, empty file takes its path.
Replace ==
    /\ Running /\ path /= 0 /\ wops < MaxFsOps
    /\ path' = FreshInode
    /\ wops' = wops + 1
    /\ UNCHANGED <<readable, files, nrec, whalf, tailerVars, queue,
                   histVars, tpc, funVars>>

\* The file is removed.
Remove ==
    /\ Running /\ path /= 0 /\ wops < MaxFsOps
    /\ path' = 0
    /\ wops' = wops + 1
    /\ UNCHANGED <<readable, files, nrec, whalf, tailerVars, queue,
                   histVars, tpc, funVars>>

\* A new, empty file is created at the path, with or without read
\* permission for the tailer.
Create ==
    /\ Running /\ path = 0 /\ wops < MaxFsOps
    /\ path' = FreshInode
    /\ readable' \in {TRUE, FALSE}
    /\ wops' = wops + 1
    /\ UNCHANGED <<files, nrec, whalf, tailerVars, queue,
                   histVars, tpc, funVars>>

\* The file's read permission is withdrawn.
Chmod ==
    /\ Running /\ path /= 0 /\ wops < MaxFsOps /\ readable
    /\ readable' = FALSE
    /\ wops' = wops + 1
    /\ UNCHANGED <<path, files, nrec, whalf, tailerVars, queue,
                   histVars, tpc, funVars>>

----------------------------------------------------------------------------
(* The tailer with an arbitrary writer, consumer and canceller             *)

Tailer ==
    \/ Start
    \/ OpenOk \/ OpenReturn \/ OpenNotFound \/ OpenDenied \/ RetrySleep
    \/ Stat0Ok \/ Stat0NotFound \/ Seek
    \/ ReadData \/ ReadEof
    \/ Put \/ PutBlock \/ PutWake
    \/ PollSleep \/ CheckRotated \/ CheckSame \/ CheckNotFound

Writer ==
    \/ WriteRecord \/ WriteHead \/ WriteTail \/ WriteJunk
    \/ Truncate \/ Replace \/ Remove \/ Create \/ Chmod

Next == Tailer \/ Writer \/ Get \/ Cancel

Spec == Init /\ [][Next]_vars

\* A step of the tailer is possible: the coroutine has not ended and is
\* not suspended in put on a full queue.  This is ENABLED <<Tailer>>_vars:
\* at every other position one of the actions of Tailer can be taken, and
\* each changes pc or the read offset.
TailerEnabled ==
    /\ pc \notin {"type_error", "crashed", "cancelled"}
    /\ ~(pc = "put_wait" /\ Len(queue) >= QueueMax)

\* The event loop resumes the coroutine whenever the operation it awaits
\* has completed, and the host's consumer keeps taking events: weak
\* fairness of Tailer, with ENABLED written out, and of Get.
FairSpec ==
    /\ Spec
    /\ ([]<>~TailerEnabled \/ []<><<Tailer>>_vars)
    /\ WF_vars(Get)

----------------------------------------------------------------------------
(* The rotation test of the integration suite                              *)
(* (test_tail_detects_file_rotation): the file exists and is empty, the    *)
(* test writes a record, takes its event, truncates the file, writes a     *)
(* second record and waits for its event.                                  *)

\* A record laid out as the test's fixtures are: the msg start tag, the txt
\* element and the closing marker on a line each.
FixtureRecord(txt) ==
    OpenMsg \o NL \o OpenTxt \o txt \o CloseTxt \o NL \o CloseMarker \o NL

\* The layouts in which the test may write the record with payload txt.
Layouts(txt) == {Record(txt) \o NL, FixtureRecord(txt)}

InitRotation ==
    /\ path = 1 /\ readable = TRUE
    /\ files = [i \in Inodes |-> <<>>]
    /\ pattern_arg = StrArg(<<"O">>)
    /\ InitTailer /\ InitWriter /\ InitFun
    /\ tpc = "write1"

\* Test lines 210-211: append the first record.
TestWrite1 ==
    /\ tpc = "write1"
    /\ \E text \in Layouts(Ora(1)) : AppendToFile(text)
    /\ tpc' = "get1"
    /\ UNCHANGED <<path, readable, writerVars, tailerVars, queue, histVars,
                   funVars>>

\* Test line 214: queue.get() returns the first event.
TestGet1 ==
    /\ tpc = "get1"
    /\ queue /= <<>>
    /\ queue' = Tail(queue)
    /\ tpc' = "truncate"
    /\ UNCHANGED <<fsVars, writerVars, tailerVars, histVars, funVars>>

\* Test line 218: log_file.write_text("") truncates the file in place.
TestTruncate ==
    /\ tpc = "truncate"
    /\ files' = [files EXCEPT ![path] = <<>>]
    /\ tpc' = "write2"
    /\ UNCHANGED <<path, readable, writerVars, tailerVars, queue, histVars,
                   funVars>>

\* Test lines 223-224: append the second record.
TestWrite2 ==
    /\ tpc = "write2"
    /\ \E text \in Layouts(Ora(2)) : AppendToFile(text)
    /\ tpc' = "get2"
    /\ UNCHANGED <<path, readable, writerVars, tailerVars, queue, histVars,
                   funVars>>

\* Test line 227: queue.get() returns the second event.
TestGet2 ==
    /\ tpc = "get2"
    /\ queue /= <<>>
    /\ queue' = Tail(queue)
    /\ tpc' = "done"
    /\ UNCHANGED <<fsVars, writerVars, tailerVars, histVars, funVars>>

\* Test line 231: tail_task.cancel().
TestCancel ==
    /\ tpc = "done"
    /\ Cancel

\* The tailer steps that can happen while the file exists, is readable and
\* the queue has room.
NextRotation ==
    \/ Start \/ OpenOk \/ OpenReturn \/ Stat0Ok \/ Seek
    \/ ReadData \/ ReadEof \/ Put \/ PollSleep \/ CheckRotated \/ CheckSame
    \/ TestWrite1 \/ TestGet1 \/ TestTruncate \/ TestWrite2 \/ TestGet2
    \/ TestCancel

SpecRotation == InitRotation /\ [][NextRotation]_vars

----------------------------------------------------------------------------
(* The pure functions applied to arbitrary buffers                         *)

\* The buffers are the concatenations of at most MaxPieces of these texts.
Pieces == {CloseMarker, <<"<", "/", "m">>, <<"s", "g", ">">>,
           OpenMsg \o OpenTxt \o Ora(1) \o CloseTxt, NL, <<"x">>}

Buffers == {Join(ps) : ps \in UNION {[1..n -> Pieces] : n \in 0..MaxPieces}}

InitExtract ==
    /\ path = 0 /\ readable = TRUE
    /\ files = [i \in Inodes |-> <<>>]
    /\ pattern_arg = StrArg(<<"O">>)
    /\ InitTailer /\ InitWriter
    /\ tpc = "off"
    /\ arg \in Buffers /\ ret = <<>> /\ fpc = "call" /\ batch = NoBatch

\* msgs, buffer = _extract_msgs_from_buffer(arg)
CallExtract ==
    /\ fpc = "call"
    /\ ret' = extract_msgs_from_buffer(arg)
    /\ fpc' = "done"
    /\ UNCHANGED <<fsVars, writerVars, tailerVars, queue, histVars, tpc, arg,
                   batch>>

NextExtract == CallExtract

SpecExtract == InitExtract /\ [][NextExtract]_vars

----------------------------------------------------------------------------
(* _compile_pattern and _process_buffer applied to batches of records      *)

\* A pattern argument that is already compiled.
PatternArg(text, ignorecase) == re_compile(text, ignorecase)

AllAttrs == <<AttrTime, AttrOrgId, AttrCompId, AttrType, AttrLevel,
              AttrHostId, AttrHostAddr, AttrPid>>

\* The attribute lists the records of a batch are written with.
AttrChoices == {<<>>, <<AttrType, AttrPid>>}

\* The value a record gives the attribute name.
AttrValue(name) == <<"V">> \o name

\* The text of a start tag's attributes.
RECURSIVE AttrText(_)
AttrText(names) ==
    IF names = <<>> THEN <<>>
    ELSE <<" ">> \o Head(names) \o <<"=", Quote>> \o AttrValue(Head(names))
         \o <<Quote>> \o AttrText(Tail(names))

StartMsg(attrs) == <<"<", "m", "s", "g">> \o attrs \o <<">">>

\* The records of a batch: a well-formed msg record whose payload matches
\* "O" as written (upper) or only when case is ignored, with some
\* attributes; one whose payload does not match; one that is not
\* well-formed; and a well-formed one whose root, in a default namespace,
\* is not msg while its txt child, outside the namespace, matches.
Descs ==
    {[kind |-> "match", upper |-> TRUE, attrs |-> a] : a \in AttrChoices}
    \cup {[kind |-> "match", upper |-> FALSE, attrs |-> AllAttrs],
          [kind |-> "nomatch", upper |-> TRUE, attrs |-> <<AttrTime>>],
          [kind |-> "malformed", upper |-> TRUE, attrs |-> <<>>],
          [kind |-> "nsroot", upper |-> TRUE, attrs |-> <<>>]}

\* The payload of a matching record as written, and trimmed.
Payload(d) == IF d.upper THEN Ora(1) ELSE <<" ", "o", "1", "\n">>
Trimmed(d) == IF d.upper THEN Ora(1) ELSE <<"o", "1">>

\* The text of the record d describes.
RecordOf(d) ==
    CASE d.kind = "match" ->
           StartMsg(AttrText(d.attrs)) \o OpenTxt \o Payload(d) \o CloseTxt
           \o CloseMarker
      [] d.kind = "nomatch" ->
           StartMsg(AttrText(d.attrs)) \o OpenTxt \o <<"n">> \o CloseTxt
           \o CloseMarker
      [] d.kind = "malformed" -> Malformed(Ora(1))
      [] d.kind = "nsroot" ->
           StartMsg(<<" ">> \o Xmlns \o <<"=", Quote, "n", Quote>>)
           \o <<"<", "t", "x", "t", " ">> \o Xmlns \o <<"=", Quote, Quote, ">">>
           \o Ora(1) \o CloseTxt \o CloseMarker

MaxBatch == 3      \* records in a batch given to _process_buffer

\* The text written after the record d describes: a newline after the
\* records that give no event, nothing after the others.
After(d) == IF d.kind \in {"nomatch", "malformed"} THEN NL ELSE <<>>

\* A batch: its records and the unterminated fragment after the last.
Batches ==
    [recs : UNION {[1..n -> Descs] : n \in 0..MaxBatch},
     frag : {<<>>, OpenMsg \o OpenTxt \o Ora(2)}]

RECURSIVE RecordsText(_)
RecordsText(recs) ==
    IF recs = <<>> THEN <<>>
    ELSE RecordOf(Head(recs)) \o After(Head(recs)) \o RecordsText(Tail(recs))

\* The buffer a batch is.
BufferOf(b) == RecordsText(b.recs) \o b.frag

InitProcess ==
    /\ path = 0 /\ readable = TRUE
    /\ files = [i \in Inodes |-> <<>>]
    /\ \/ pattern_arg = StrArg(<<"O">>)
       \/ pattern_arg = PatternArg(<<"O">>, FALSE)
       \/ pattern_arg = PatternArg(<<"O">>, TRUE)
       \/ pattern_arg = IntArg
    /\ InitTailer /\ InitWriter
    /\ tpc = "off"
    /\ batch \in Batches
    /\ arg = BufferOf(batch) /\ ret = <<>> /\ fpc = "compile"

\* Line 157: pattern_regex = _compile_pattern(pattern).
CallCompile ==
    /\ fpc = "compile"
    /\ LET p == compile_pattern(pattern_arg)
       IN  IF p = TypeError
           THEN fpc' = "type_error" /\ UNCHANGED pattern_regex
           ELSE fpc' = "process" /\ pattern_regex' = p
    /\ UNCHANGED <<fsVars, writerVars, pc, pattern_arg, buffer, fh, opened,
                   inode, events, open_handles, queue, histVars, tpc, arg,
                   ret, batch>>

\* Line 179: events, buffer = _process_buffer(arg, pattern_regex, adr_home).
CallProcess ==
    /\ fpc = "process"
    /\ ret' = process_buffer(arg, pattern_regex, AdrHome)
    /\ fpc' = "processed"
    /\ UNCHANGED <<fsVars, writerVars, tailerVars, queue, histVars, tpc, arg,
                   batch>>

NextProcess == CallCompile \/ CallProcess

SpecProcess == InitProcess /\ [][NextProcess]_vars

----------------------------------------------------------------------------
(* Properties                                                              *)

\* The record number of the message "O<i>".
IsOra(m) == \E i \in 1..MaxRecs : m = Ora(i)
RecNo(m) == CHOOSE i \in 1..MaxRecs : m = Ora(i)

\* The tailer has read the whole file the path names and waits for more.
CaughtUp ==
    /\ pc \in {"poll_sleep", "stat1"}
    /\ events = <<>>
    /\ path /= 0 /\ fh.ino = path /\ inode = path
    /\ fh.pos = Len(files[path])

\* C1: in the rotation scenario (file tailed from empty, first record
\* written and its event taken, file truncated, second record written) the
\* first event is never put again, and under every interleaving the second
\* event is put: once the tailer has caught up with the file after the
\* second write, the second event has been put.
C1_RotationEmitsSecond ==
    /\ Cardinality({k \in 1..Len(emitted) : emitted[k] = Ora(1)}) <= 1
    /\ (tpc = "get2" /\ CaughtUp) =>
           \E k \in 1..Len(emitted) : emitted[k] = Ora(2)

\* C2: the events of a file are put in file order and none is put twice:
\* the record numbers of the events put are strictly increasing.
C2_FileOrder ==
    \A k \in 1..Len(emitted) :
        /\ IsOra(emitted[k])
        /\ \A j \in 1..(k - 1) : RecNo(emitted[j]) < RecNo(emitted[k])

\* C2 witness: two events have been put.
C2_TwoEventsPut == Len(emitted) >= 2

\* A tailer suspended in put on a full queue stays suspended or is
\* cancelled.
SuspendedStays ==
    (pc = "put_wait" /\ Len(queue) >= QueueMax) =>
        \/ pc' = "cancelled"
        \/ /\ pc' = "put_wait"
           /\ UNCHANGED <<fh, buffer, events, emitted, built>>

\* An event leaves the pending list only by entering the queue.
PendingGoesToQueue ==
    (pc = "put" /\ events' /= events) =>
        /\ queue' = Append(queue, Head(events))
        /\ events' = Tail(events)

\* C3: the queue never holds more than its capacity; while the task runs
\* the events built are exactly those put followed by those still to put
\* (none is dropped); a tailer suspended in put on a full queue does
\* nothing but stay suspended (or be cancelled) until there is room; and
\* an event leaves the pending list only by entering the queue.
C3_Backpressure ==
    /\ [](/\ Len(queue) <= QueueMax
          /\ Running => built = emitted \o Messages(events))
    /\ [][SuspendedStays /\ PendingGoesToQueue]_vars

\* C3 witness: the tailer is suspended in put on a full queue.
C3_SuspendedOnFullQueue ==
    pc = "put_wait" /\ Len(queue) = QueueMax /\ events /= <<>>

\* C4: when the task has exited by cancellation, no file handle it opened
\* remains open.
C4_CancelReleasesHandle == pc = "cancelled" => open_handles = 0

\* C5: the worker terminates only by cancellation or by the invalid-pattern
\* error: no I/O failure propagates out of the tailer.
C5_NoIOFailurePropagates == pc /= "crashed"

\* C6: the buffer is empty whenever the tailer is about to open the file or
\* has opened it and not read from it yet, so a fragment of the old file is
\* never joined to text of the new one.
C6_BufferDiscardedOnReopen ==
    pc \in {"open", "open_ret", "stat0", "seek"} => buffer = <<>>

\* C7: no event is built for a record that was complete in the file at the
\* moment of a seek to end of file.
C7_NoReplay ==
    \A i \in at_seek : \A k \in 1..Len(built) : built[k] /= Ora(i)

\* C7 witness: a seek has skipped a complete record and the event of a
\* record written after it has been put.
C7_SkippedThenEmitted ==
    \E i \in at_seek : \E k \in 1..Len(emitted) :
        IsOra(emitted[k]) /\ RecNo(emitted[k]) > i

\* C8: the buffer never contains a closing marker: every complete record
\* leaves the buffer in the read cycle that brings its closing marker.
C8_BufferHasNoMarker == Find(buffer, CloseMarker) = -1

\* C8 witness: a read cycle has taken a complete record out of the buffer
\* and left text behind it.
C8_LeftoverAfterRecord == built /= <<>> /\ buffer /= <<>>

EndsWith(s, sub) ==
    Len(s) >= Len(sub) /\ StartsAt(s, sub, Len(s) - Len(sub))

\* C9: the records in order followed by the leftover are the buffer, every
\* record ends with the closing marker and the leftover contains none.
C9_ExtractPartition ==
    fpc = "done" =>
        /\ Join(ret[1]) \o ret[2] = arg
        /\ \A k \in 1..Len(ret[1]) : EndsWith(ret[1][k], CloseMarker)
        /\ Find(ret[2], CloseMarker) = -1

\* C9 witness: a buffer gave two records or more and a leftover.
C9_RecordsAndLeftover == fpc = "done" /\ Len(ret[1]) >= 2 /\ ret[2] /= <<>>

\* The 0-based index of the k-th occurrence of sub in s.
Occurrence(s, sub, k) ==
    CHOOSE i \in 0..Len(s) :
        /\ StartsAt(s, sub, i)
        /\ Cardinality({j \in 0..i : StartsAt(s, sub, j)}) = k

\* C10: a buffer with N closing markers gives N records, each with one
\* closing marker, the k-th record ending with the k-th marker of the
\* buffer.
C10_ExtractCount ==
    fpc = "done" =>
        /\ Len(ret[1]) = Count(arg, CloseMarker)
        /\ \A k \in 1..Len(ret[1]) :
              /\ Count(ret[1][k], CloseMarker) = 1
              /\ Len(Join(SubSeq(ret[1], 1, k)))
                     = Occurrence(arg, CloseMarker, k) + Len(CloseMarker)

\* C10 witness: a buffer with three closing markers or more was split.
C10_ThreeMarkers == fpc = "done" /\ Count(arg, CloseMarker) >= 3

\* The records of the batch that are well-formed msg records whose trimmed
\* payload the matcher in effect finds: those written to match, the one in
\* lower case only when the matcher ignores case.
Matching(d) == d.kind = "match" /\ (d.upper \/ pattern_regex.ignorecase)
MatchingRecs == SelectSeq(batch.recs, Matching)

\* C11: _process_buffer returns one event for each well-formed msg record
\* of the batch whose trimmed payload matches, in order and with that
\* payload as message, and none for the other records: as many events as
\* there are such records, none for a record whose root is not msg.
C11_OneEventPerMatch ==
    fpc = "processed" =>
        /\ Len(ret[1]) = Len(MatchingRecs)
        /\ \A k \in 1..Len(ret[1]) :
              ret[1][k].message = Trimmed(MatchingRecs[k])

\* C11 witness: a batch with a matching record, a non-matching one and one
\* whose root is not msg was processed.
C11_MixedBatch ==
    /\ fpc = "processed"
    /\ \E k \in 1..Len(batch.recs) : Matching(batch.recs[k])
    /\ \E k \in 1..Len(batch.recs) : batch.recs[k].kind = "nomatch"
    /\ \E k \in 1..Len(batch.recs) : batch.recs[k].kind = "nsroot"

\* The records of the batch written to match the pattern, in either case.
WrittenToMatch(d) == d.kind = "match"

\* The pattern argument is a text, or a matcher compiled with IGNORECASE.
GivenIgnoringCase ==
    \/ pattern_arg.type = "str"
    \/ pattern_arg.type = "Pattern" /\ pattern_arg.ignorecase

HasLowerCaseRecord ==
    \E k \in 1..Len(batch.recs) :
        batch.recs[k].kind = "match" /\ ~batch.recs[k].upper

\* C12 as stated: whichever accepted shape the pattern is given in, a
\* compiled matcher without the ignore-case flag included, the matcher in
\* effect matches payloads regardless of letter case: every record written
\* to match, in upper or lower case, gives an event.
C12_AnyShapeIgnoresCase ==
    fpc = "processed" =>
        Len(ret[1]) = Len(SelectSeq(batch.recs, WrittenToMatch))

\* C12 amended: a pattern given as text is compiled to ignore case; an
\* already-compiled matcher is used as it is, so it ignores case exactly
\* when it was compiled to.  A lower-case payload gives an event if and
\* only if the argument was a text or a matcher compiled with IGNORECASE.
C12_TextIgnoresCaseCompiledAsIs ==
    /\ fpc \in {"process", "processed"} =>
          /\ pattern_arg.type = "str" => pattern_regex.ignorecase
          /\ pattern_arg.type = "Pattern" => pattern_regex = pattern_arg
    /\ fpc = "processed" =>
          Len(ret[1]) = Len(SelectSeq(batch.recs,
                              LAMBDA d : /\ d.kind = "match"
                                         /\ (d.upper \/ GivenIgnoringCase)))

\* C12 witness: with a pattern given as text, a record with a lower-case
\* payload gave an event.
C12_LowerCaseMatchedByText ==
    /\ fpc = "processed" /\ pattern_arg.type = "str"
    /\ HasLowerCaseRecord
    /\ \E k \in 1..Len(ret[1]) : ret[1][k].message = <<"o", "1">>

\* The pattern argument is neither a text nor a compiled matcher.
InvalidPattern == pattern_arg.type \notin {"str", "Pattern"}

\* With an invalid pattern the tailer has opened nothing and put nothing.
NothingDone ==
    /\ pc \in {"start", "type_error"}
    /\ pattern_regex = NoPattern
    /\ fh = NoFile /\ opened = NoFile /\ open_handles = 0
    /\ queue = <<>> /\ built = <<>> /\ emitted = <<>>

\* C13: with a pattern that is neither text nor a compiled matcher the
\* tailer's first step ends it with the type error; it never opens the
\* file, never puts an event, never compiles a default pattern, and once
\* failed it stays failed (no retry).
C13_InvalidPatternFailsFirst ==
    /\ [](InvalidPattern => NothingDone)
    /\ [][/\ (InvalidPattern /\ pc = "start" /\ pc' /= pc) => pc' = "type_error"
          /\ pc = "type_error" => pc' = "type_error"]_vars

\* C13 witness: the tailer has ended with the type error.
C13_TypeErrorRaised == pc = "type_error" /\ InvalidPattern

IsMalformed(d) == d.kind = "malformed"

\* The batch without its malformed records, and the batch with a
\* well-formed record in the place of each malformed one.
WithoutMalformed ==
    [batch EXCEPT !.recs = SelectSeq(@, LAMBDA d : ~IsMalformed(d))]
MalformedRepaired ==
    [batch EXCEPT !.recs =
        [k \in 1..Len(@) |->
            IF IsMalformed(@[k])
            THEN [kind |-> "nomatch", upper |-> TRUE, attrs |-> <<AttrTime>>]
            ELSE @[k]]]

\* C14: the events _process_buffer returns for a batch are those it
\* returns for the batch without its malformed records (the events of the
\* well-formed matching records, in order, however many malformed records
\* lie between them), and the leftover is the one of the batch with every
\* malformed record replaced by a well-formed one: the text after the
\* last closing marker.
C14_MalformedSkipped ==
    fpc = "processed" =>
        /\ ret[1] = process_buffer(BufferOf(WithoutMalformed), pattern_regex,
                                   AdrHome)[1]
        /\ Messages(ret[1]) = [k \in 1..Len(MatchingRecs) |->
                                  Trimmed(MatchingRecs[k])]
        /\ ret[2] = process_buffer(BufferOf(MalformedRepaired), pattern_regex,
                                   AdrHome)[2]
        /\ ret[2] = (IF batch.recs = <<>> THEN <<>>
                     ELSE After(batch.recs[Len(batch.recs)]))
                    \o batch.frag

\* C14 witness: a batch with a malformed record before a matching one was
\* processed and gave an event.
C14_MalformedBeforeMatch ==
    /\ fpc = "processed" /\ ret[1] /= <<>>
    /\ \E j, k \in 1..Len(batch.recs) :
          j < k /\ IsMalformed(batch.recs[j]) /\ Matching(batch.recs[k])

EventKeys == {"adr_home", "pattern", "time", "org_id", "comp_id", "msg_type",
              "level", "host_id", "host_addr", "pid", "message"}

\* The text of the pattern argument.
PatternText ==
    IF pattern_arg.type = "str" THEN pattern_arg.value ELSE pattern_arg.pattern

\* What the record d gives the attribute name: its value, or nothing.
Given(d, name) ==
    IF \E i \in 1..Len(d.attrs) : d.attrs[i] = name
    THEN AttrValue(name) ELSE None

\* C15: every event has the eleven keys; adr_home is the configured home
\* path, pattern the text of the matcher in effect, message the trimmed
\* payload; each of the eight attribute keys holds the value the record
\* gives that attribute (msg_type that of "type"), and None when the
\* record lacks it.
C15_ElevenKeys ==
    fpc = "processed" =>
        \A k \in 1..Len(ret[1]) :
            LET e == ret[1][k]
                d == MatchingRecs[k]
            IN  /\ DOMAIN e = EventKeys
                /\ e.adr_home = AdrHome
                /\ e.pattern = PatternText
                /\ e.time = Given(d, AttrTime)
                /\ e.org_id = Given(d, AttrOrgId)
                /\ e.comp_id = Given(d, AttrCompId)
                /\ e.msg_type = Given(d, AttrType)
                /\ e.level = Given(d, AttrLevel)
                /\ e.host_id = Given(d, AttrHostId)
                /\ e.host_addr = Given(d, AttrHostAddr)
                /\ e.pid = Given(d, AttrPid)
                /\ e.message = Trimmed(d)

\* C15 witness: a batch gave an event for a record without attributes, one
\* for a record with some and one for a record with all eight.
C15_SomeAndNoAttributes ==
    /\ fpc = "processed" /\ Len(ret[1]) = 3
    /\ \E k \in 1..3 : MatchingRecs[k].attrs = <<>>
    /\ \E k \in 1..3 : MatchingRecs[k].attrs = <<AttrType, AttrPid>>
    /\ \E k \in 1..3 : MatchingRecs[k].attrs = AllAttrs

\* A read cycle takes a record out of the buffer.
ExtractingRead ==
    /\ pc = "readline" /\ pc' \in {"readline", "put"} /\ fh' /= fh
    /\ Find(buffer \o readline(files[fh.ino], fh.pos), CloseMarker) /= -1

\* The first record a read cycle takes out of the buffer.
FirstExtracted ==
    extract_msgs_from_buffer(
        buffer \o readline(files[fh.ino], fh.pos))[1][1]

\* C16: the events put are events built from records that end with a
\* closing marker read from the file; after a cancellation nothing is put;
\* and a fragment that was in the buffer when the file was reopened gives
\* no event: the record a read cycle completes with text carried over from
\* before the reopening produces none.
C16_NoEventFromFragment ==
    /\ [](Len(emitted) <= Len(built)
          /\ emitted = SubSeq(built, 1, Len(emitted)))
    /\ [][/\ pc = "cancelled" => emitted' = emitted
          /\ (ExtractingRead /\ carried > 0) =>
                EventsOfRecord(FirstExtracted, pattern_regex, AdrHome) = <<>>
         ]_vars

\* The tailer's own step out of the rotation check.
LeavesCheck == pc = "stat1" /\ pc' \notin {"stat1", "cancelled"}

\* What the rotation check finds: the path names nothing; or it names a
\* file other than the one recorded at open, or one shorter than the read
\* offset.
Disappeared == path = 0
ChangedOrShrunk ==
    path /= 0 /\ (path /= inode \/ Len(files[path]) < fh.pos)

\* C17: the rotation check is entered only from the poll sleep, and the
\* poll sleep only from a read that returned no data.  Leaving the check,
\* the tailer has closed its handle and is about to open the file again
\* when the identity changed, the size is below the read offset or the
\* file has disappeared, and otherwise reads on with handle, offset and
\* recorded identity unchanged.  An open attempt on a missing file leads
\* to the retry pause.
C17_RotationCheck ==
    [][/\ (pc' = "stat1" /\ pc /= "stat1") => pc = "poll_sleep"
       /\ (pc' = "poll_sleep" /\ pc /= "poll_sleep") =>
             /\ pc = "readline"
             /\ readline(files[fh.ino], fh.pos) = <<>>
             /\ UNCHANGED <<fh, inode, buffer>>
       /\ (LeavesCheck /\ (Disappeared \/ ChangedOrShrunk)) =>
             /\ pc' = "open"
             /\ fh' = NoFile /\ open_handles' = open_handles - 1
       /\ (LeavesCheck /\ ~Disappeared /\ ~ChangedOrShrunk) =>
             /\ pc' = "readline"
             /\ UNCHANGED <<fh, inode, open_handles>>
       /\ (pc = "open" /\ path = 0 /\ pc' \notin {"open", "cancelled"}) =>
             pc' = "fnf_sleep"
      ]_vars

\* C17 witness: after a session on one file the tailer is back at the open
\* with its handle closed, the path naming another file.
C17_BackToOpening ==
    /\ pc = "open" /\ fh = NoFile /\ open_handles = 0
    /\ inode /= 0 /\ path /= 0 /\ path /= inode

\* C18: a failed open attempt on a missing file is followed by the retry
\* pause and the pause by the next attempt (unless the tailer is
\* cancelled), so two failed attempts are separated by a pause; once in
\* the retry the tailer never ends on its own; and if from some moment on
\* the file exists, for a tailer that is not cancelled, the tailer reads
\* the file again and again.
C18_MissingFileRetry ==
    /\ [][/\ (pc = "open" /\ path = 0 /\ pc' /= pc) =>
                pc' \in {"fnf_sleep", "cancelled"}
          /\ (pc = "fnf_sleep" /\ pc' /= pc) => pc' \in {"open", "cancelled"}
         ]_vars
    /\ [](pc = "fnf_sleep" => [](pc /= "crashed"))
    /\ [](pc = "fnf_sleep" =>
             ([]<>(path = 0) \/ <>(pc \in {"readline", "cancelled"})))

\* The two pieces a record is written in.
HeadOf(i) == Slice(Record(Ora(i)) \o NL, 0, SplitPoint)
TailPiece == Slice(Record(Ora(1)) \o NL, SplitPoint, Len(Record(Ora(1))) + 1)

\* The read step of the tailer and the text it processes.
ReadStep == pc = "readline" /\ pc' \in {"readline", "put"} /\ fh' /= fh
Whole == buffer \o readline(files[fh.ino], fh.pos)

\* How often a message occurs in a sequence of messages.
Occurrences(msgs, m) == Cardinality({k \in 1..Len(msgs) : msgs[k] = m})

\* C19: a read cycle whose buffer is one complete record followed by the
\* first piece of the next builds the event of the complete record only and
\* keeps the piece; and when the buffer is the piece left by the reads of
\* this opening of the file (nothing in it was read before the reopening)
\* and the text read starts with the rest of the record, the cycle builds
\* the event of that record, once, and no cycle has built it before.
C19_SplitRecordReassembled ==
    [][ReadStep =>
        \A i \in 1..MaxRecs :
          /\ \A j \in 1..MaxRecs :
               Whole = Record(Ora(i)) \o HeadOf(j) =>
                 /\ built' = built \o <<Ora(i)>>
                 /\ Messages(events') = <<Ora(i)>>
                 /\ buffer' = HeadOf(j)
          /\ ( /\ carried = 0
               /\ buffer \in {HeadOf(i), NL \o HeadOf(i)}
               /\ Slice(Whole, Len(buffer), Len(buffer) + Len(TailPiece))
                    = TailPiece ) =>
                 /\ Occurrences(built, Ora(i)) = 0
                 /\ Len(built') > Len(built)
                 /\ built'[Len(built) + 1] = Ora(i)
                 /\ Occurrences(built', Ora(i)) = 1
                 /\ Messages(events')[1] = Ora(i)
       ]_vars

\* C19 witness: the first record's event was built, the first piece of the
\* second record is the buffer, read at this opening of the file, and the
\* rest of the record is in the file, unread.
C19_HeadHeldTailUnread ==
    /\ pc = "readline" /\ carried = 0
    /\ built = <<Ora(1)>> /\ buffer = HeadOf(2)
    /\ files[fh.ino] = Record(Ora(1)) \o HeadOf(2) \o TailPiece
    /\ readline(files[fh.ino], fh.pos) = TailPiece

\* The tailer goes back to opening the file: from the rotation check, or
\* (by way of the pause) from a failed stat right after open.
BackToOpening ==
    \/ pc = "stat1" /\ pc' = "open"
    \/ pc = "stat0" /\ pc' = "fnf_sleep"

\* C20: at most one file handle is open at any time; while the tailer is
\* about to open the file or pauses before the next attempt, none is open;
\* and every step back to opening closes the handle that was open.
C20_NoHandleLeak ==
    /\ [](/\ open_handles \in {0, 1}
          /\ pc \in {"open", "fnf_sleep"} =>
                (open_handles = 0 /\ fh = NoFile /\ opened = NoFile))
    /\ [][BackToOpening =>
            (open_handles = 1 /\ open_handles' = 0 /\ fh' = NoFile)]_vars

\* C20 witness: events were built from a file that was then replaced by a
\* new, still empty one, which the tailer now reads, with one handle open.
C20_ReadingAfterReopen ==
    /\ pc = "readline" /\ open_handles = 1
    /\ built /= <<>> /\ path = 2 /\ fh.ino = 2 /\ files[2] = <<>>

\* The tailer holds an open file and a recorded baseline.
HasBaseline ==
    pc \in {"seek", "readline", "put", "put_wait", "poll_sleep", "stat1"}

\* C21: the inode recorded after a successful open is the inode of the
\* file the open handle reads, whatever happens to the path between the
\* open and the stat by path; and a rotation check made while the path
\* names another file than the one being read sends the tailer back to
\* opening.
C21_BaselineIsOpenFile ==
    /\ [](HasBaseline => inode = fh.ino)
    /\ [][(pc = "stat1" /\ path /= 0 /\ path /= fh.ino /\ pc' /= pc) =>
             pc' \in {"open", "cancelled"}]_vars

\* Record number i was appended, whole, after the last seek to end of
\* file, to the file the tailer reads.
AppendedAfterSeek(i) ==
    /\ HasBaseline /\ pc /= "seek"
    /\ i > seek_nrec
    /\ Find(files[fh.ino], Record(Ora(i))) /= -1

\* No rotation, truncation, deletion, creation or change of permissions.
OnlyAppended == wops = 0

\* C22: no event is put twice; and when the file is only ever appended to,
\* the tailer is not cancelled and the consumer keeps taking events, every
\* matching record appended whole after the tailer began to read is put.
C22_ExactlyOnce ==
    /\ [](\A i \in 1..MaxRecs : Occurrences(emitted, Ora(i)) <= 1)
    /\ \A i \in 1..MaxRecs :
         ([]OnlyAppended /\ [](pc /= "cancelled")) =>
             [](AppendedAfterSeek(i) => <>(Occurrences(emitted, Ora(i)) = 1))

\* _compile_pattern has returned a pattern.
Compiled == fpc \in {"process", "processed"}

\* C23: given a compiled pattern, _compile_pattern returns that pattern,
\* text and flags unchanged; given a text it returns a pattern with that
\* text; and compiling what it returned gives the same pattern again.
C23_CompileIdempotent ==
    Compiled =>
        /\ pattern_arg.type = "Pattern" => pattern_regex = pattern_arg
        /\ pattern_arg.type = "str" =>
               /\ pattern_regex.type = "Pattern"
               /\ pattern_regex.pattern = pattern_arg.value
        /\ compile_pattern(pattern_regex) = pattern_regex

\* C23 witness: a pattern compiled without IGNORECASE was given and came
\* back as it was.
C23_PatternReturnedAsGiven ==
    /\ Compiled
    /\ pattern_arg.type = "Pattern" /\ ~pattern_arg.ignorecase
    /\ pattern_regex = pattern_arg

====
